---- MODULE Spec2Model ----
(***************************************************************************)
(* The NYC Yellow Taxi cleaning pipeline (datacleaning.clean) and its      *)
(* verifier (scripts/verify_cleaning.main) as a state machine: one action  *)
(* per stage of clean(), in the order of the code, followed by the         *)
(* verifier reading the written clean dataset.                             *)
(*                                                                         *)
(* A cell is <<>> when it is null (pd.NA / NaN / NaT), <<v>> when it holds  *)
(* the value v and <<"text", s>> when the file holds the text s where a     *)
(* number is expected. A column of `absent` is carried as null cells: it is *)
(* not part of the frame, and a statement that reads it raises.             *)
(* Money is counted in cents, distance in millionths of a mile, time in    *)
(* millionths of a minute, and the Float64 columns RatecodeID and          *)
(* passenger_count in halves until the code casts them to Int64.           *)
(***************************************************************************)
EXTENDS Integers, Sequences, FiniteSets, TLC

VARIABLES
    raw,        \* NYC_YELLOW_TAXI_RAW.csv as _read_inputs() types it
    zones,      \* taxi_zone_lookup.csv as _read_inputs() reads it
    absent,     \* the expected columns the raw file does not have
    df,         \* the data frame of clean()
    report,     \* the list `report` of clean(): <<line label, count>> pairs
    pc,         \* the stage of clean() / main() to run next
    clean_csv,  \* NYC_YELLOW_TAXI_CLEAN.csv: <<>> until written, then <<rows>>
    report_md,  \* Docs/cleaning_report.md: <<>> until written, then <<lines>>
    checks,     \* the dict `checks` of the verifier: <<>> until it ran
    error       \* <<>>, or <<exception>> once a statement of clean() raised

vars == <<raw, zones, absent, df, report, pc, clean_csv, report_md, checks, error>>

-----------------------------------------------------------------------------
(* Bounds of the model *)

MaxRows == 2
MaxZones == 2

-----------------------------------------------------------------------------
(* Cells *)

NA == <<>>
isna(x) == x = NA
notna(x) == x # NA
fillna(x, v) == IF isna(x) THEN v ELSE x[1]

\* A field of the file that holds text where a number is expected.
Text(s) == <<"text", s>>
is_text(x) == Len(x) = 2

\* One mile, one minute: distances and times are counted in millionths.
Micro == 1000000
Miles(n) == n * Micro
Minutes(n) == n * Micro

\* Series.round(5): to the nearest multiple of 1e-5 (ten millionths), ties to even.
Round5(x) ==
    LET q == x \div 10
        r == x % 10
    IN  IF r < 5 THEN q * 10
        ELSE IF r > 5 THEN (q + 1) * 10
        ELSE IF q % 2 = 0 THEN q * 10 ELSE (q + 1) * 10

Abs(x) == IF x < 0 THEN -x ELSE x

\* df[mask] is SelectSeq(df, keep): the rows that satisfy keep, in frame order.

\* isin on a nullable column: a null cell is in no list of values.
isin(x, S) == notna(x) /\ x[1] \in S

\* isin on a Float64 column counted in halves: only a whole value can be listed.
isin_float(x, S) == notna(x) /\ x[1] % 2 = 0 /\ (x[1] \div 2) \in S

-----------------------------------------------------------------------------
(* Program constants *)

\* The component fees whose negative values are nulled.
FeeCols ==
    << "extra", "mta_tax", "tip_amount", "tolls_amount",
       "improvement_surcharge", "congestion_surcharge", "airport_fee" >>

\* The eight addends of the recomputed total.
ComponentCols == <<"fare_amount">> \o FeeCols

VENDORS == {1, 2}
RATECODES == {1, 2, 3, 4, 5, 6}
PAYMENTS == {1, 2, 3, 4, 5, 6}
ADJUSTMENTS == {4, 6}
FLAGS == {"Y", "N"}

\* 24 * 60 minutes.
MaxDurationMin == 1440
\* 200 miles.
MaxDistanceMi == 200
\* The reconciliation tolerance 0.01, in cents.
Tolerance == 1
\* The passenger_count cap.
MaxPassengers == 6

-----------------------------------------------------------------------------
(* The Reporter *)

\* _log with the line put in front of the list.
_log_front(rep, label, n) == <<<<label, n>>>> \o rep

\* _log(report, line): the line is kept as <<text before the colon, count>>.
_log(rep, label, n) == Append(rep, <<label, n>>)

\* The line is written only `if nneg:` / `if dropped:`.
_log_if(rep, label, n) == IF n # 0 THEN _log(rep, label, n) ELSE rep

-----------------------------------------------------------------------------
(* Stage 1: column types and normalization *)

\* pd.to_numeric(errors="coerce"): a cell that holds no number becomes null.
to_numeric(x) == IF Len(x) = 1 THEN x ELSE NA

\* str.upper() on the flag column.
upper(x) ==
    IF isna(x) THEN NA
    ELSE <<CASE x[1] = "y" -> "Y" [] x[1] = "n" -> "N" [] OTHER -> x[1]>>

NumericCols == ComponentCols \o <<"total_amount", "trip_distance">>

normalize_flag(x) == IF isin(upper(x), FLAGS) THEN upper(x) ELSE NA

coerce_row(r) ==
    [f \in DOMAIN r |->
        IF \E k \in DOMAIN NumericCols : NumericCols[k] = f THEN to_numeric(r[f])
        ELSE IF f = "store_and_fwd_flag" THEN normalize_flag(r[f])
        ELSE r[f]]

-----------------------------------------------------------------------------
(* Stage 2: valid domains *)

\* df["VendorID"].isin([1, 2]) | df["VendorID"].isna()
vendor_ok(r) == isin(r.VendorID, VENDORS) \/ isna(r.VendorID)

\* ~df["RatecodeID"].isin([1..6]) & df["RatecodeID"].notna()
ratecode_invalid(r) ==
    ~isin_float(r.RatecodeID, RATECODES) /\ notna(r.RatecodeID)

\* Null the invalid rate codes, then astype("Int64"): what is left is whole.
ratecode_row(r) ==
    [r EXCEPT !.RatecodeID =
        IF ratecode_invalid(r) \/ isna(r.RatecodeID) THEN NA
        ELSE <<r.RatecodeID[1] \div 2>>]

\* df["payment_type"].eq(0)
payment_zero(r) == notna(r.payment_type) /\ r.payment_type[1] = 0

\* payment_row with the whole row of the mask assigned, RatecodeID included.
payment_row_clears_ratecode(r) ==
    [r EXCEPT !.payment_type = IF payment_zero(r) THEN NA ELSE @,
              !.RatecodeID = IF payment_zero(r) THEN NA ELSE @]

\* df.loc[df["payment_type"].eq(0), "payment_type"] = pd.NA
payment_row(r) ==
    [r EXCEPT !.payment_type = IF payment_zero(r) THEN NA ELSE @]

-----------------------------------------------------------------------------
(* Stage 3: datetime sanity *)

\* bad_order with <= for <.
bad_order_or_equal(r) ==
    /\ notna(r.tpep_dropoff_datetime)
    /\ notna(r.tpep_pickup_datetime)
    /\ r.tpep_dropoff_datetime[1] <= r.tpep_pickup_datetime[1]

\* df["tpep_dropoff_datetime"] < df["tpep_pickup_datetime"]; NaT compares False.
bad_order(r) ==
    /\ notna(r.tpep_dropoff_datetime)
    /\ notna(r.tpep_pickup_datetime)
    /\ r.tpep_dropoff_datetime[1] < r.tpep_pickup_datetime[1]

order_ok(r) == ~bad_order(r)

\* (dropoff - pickup).dt.total_seconds() / 60.0; NaN when a timestamp is NaT.
duration_of(r) ==
    IF isna(r.tpep_dropoff_datetime) \/ isna(r.tpep_pickup_datetime) THEN NA
    ELSE <<r.tpep_dropoff_datetime[1] - r.tpep_pickup_datetime[1]>>

\* The frame gains the column trip_duration_min.
duration_row(r) ==
    [f \in DOMAIN r \cup {"trip_duration_min"} |->
        IF f = "trip_duration_min" THEN duration_of(r) ELSE r[f]]

\* duration_ok with < for <=.
duration_lt_max(r) ==
    notna(r.trip_duration_min) /\ r.trip_duration_min[1] < Minutes(MaxDurationMin)

\* df["trip_duration_min"] <= 24 * 60; NaN compares False.
duration_ok(r) ==
    notna(r.trip_duration_min) /\ r.trip_duration_min[1] <= Minutes(MaxDurationMin)

\* df["trip_duration_min"].fillna(0).round(5).eq(0)
zero_minute(r) == Round5(fillna(r.trip_duration_min, 0)) = 0

\* df["trip_distance"].fillna(0).round(5).eq(0)
zero_distance(r) == Round5(fillna(r.trip_distance, 0)) = 0

\* not_zero_zero with | for &.
not_zero_or_zero(r) == ~(zero_minute(r) \/ zero_distance(r))

\* ~(zero_minute & df["trip_distance"].fillna(0).round(5).eq(0))
not_zero_zero(r) == ~(zero_minute(r) /\ zero_distance(r))

-----------------------------------------------------------------------------
(* Stage 4: distance sanity *)

\* df["trip_distance"].isna() | (df["trip_distance"] >= 0)
distance_nonneg(r) == isna(r.trip_distance) \/ r.trip_distance[1] >= 0

\* distance_le_max with the bound excluded.
distance_lt_max(r) ==
    isna(r.trip_distance) \/ r.trip_distance[1] < Miles(MaxDistanceMi)

\* df["trip_distance"].isna() | (df["trip_distance"] <= 200)
distance_le_max(r) ==
    isna(r.trip_distance) \/ r.trip_distance[1] <= Miles(MaxDistanceMi)

-----------------------------------------------------------------------------
(* Stage 5: monetary fields and totals *)

\* df[col] < 0; a null cell compares NA, which .loc and .sum() take as False.
is_negative(x) == notna(x) /\ x[1] < 0

\* null_negative as an assignment that is lost on a copy of the frame.
null_negative_lost(r, col) == r

null_negative(r, col) == [r EXCEPT ![col] = IF is_negative(@) THEN NA ELSE @]

\* The loop over the seven fee columns, from column k on: the frame and the
\* report after it, as <<frame, report>>.
RECURSIVE null_negative_fees(_, _, _)
null_negative_fees(frame, rep, k) ==
    IF k > Len(FeeCols) THEN <<frame, rep>>
    ELSE LET col == FeeCols[k]
             nneg == Cardinality({i \in DOMAIN frame : is_negative(frame[i][col])})
         IN  null_negative_fees(
                 [i \in DOMAIN frame |-> null_negative(frame[i], col)],
                 _log_if(rep, "Set negatives to NA for " \o col, nneg),
                 k + 1)

\* (~df["payment_type"].isin([4, 6])).fillna(False)
non_adj(r) == ~isin(r.payment_type, ADJUSTMENTS)

\* fare_ok with the adjustment mask used un-negated.
fare_ok_mask_inverted(r) ==
    (isna(r.fare_amount) \/ r.fare_amount[1] >= 0) \/ non_adj(r)

\* (df["fare_amount"].isna() | (df["fare_amount"] >= 0)) | ~non_adj
fare_ok(r) == (isna(r.fare_amount) \/ r.fare_amount[1] >= 0) \/ ~non_adj(r)

\* total_ok with the adjustment mask used un-negated.
total_ok_mask_inverted(r) ==
    (isna(r.total_amount) \/ r.total_amount[1] >= 0) \/ non_adj(r)

\* (df["total_amount"].isna() | (df["total_amount"] >= 0)) | ~non_adj
total_ok(r) == (isna(r.total_amount) \/ r.total_amount[1] >= 0) \/ ~non_adj(r)

\* Series.add(other, fill_value=fv): null only where both cells are null.
add_fill(a, b, fv) ==
    IF isna(a) /\ isna(b) THEN NA ELSE <<fillna(a, fv) + fillna(b, fv)>>

RECURSIVE coalesce_from(_, _, _)
coalesce_from(values, result, k) ==
    IF k > Len(values) THEN result
    ELSE coalesce_from(values,
                       add_fill(result, <<fillna(values[k], 0)>>, 0), k + 1)

\* _coalesce_sum over the cells of one row: result starts as the first
\* series and every later one is added with fillna(0) and fill_value=0.
_coalesce_sum(values) == coalesce_from(values, values[1], 2)

computed_total(r) ==
    _coalesce_sum([k \in DOMAIN ComponentCols |-> r[ComponentCols[k]]])

\* mismatch with >= 0.01 for > 0.01.
mismatch_ge(r) ==
    /\ notna(r.total_amount)
    /\ notna(computed_total(r))
    /\ Abs(r.total_amount[1] - computed_total(r)[1]) >= Tolerance

\* (df["total_amount"] - computed_total).abs() > 0.01; NA where either is null,
\* which .loc and fillna(False).sum() take as False.
mismatch(r) ==
    /\ notna(r.total_amount)
    /\ notna(computed_total(r))
    /\ Abs(r.total_amount[1] - computed_total(r)[1]) > Tolerance

reconcile_row(r) ==
    IF mismatch(r) THEN [r EXCEPT !.total_amount = computed_total(r)] ELSE r

-----------------------------------------------------------------------------
(* Stage 6: passenger count capping *)

\* passenger_out_of_range with >= 6 for > 6.
passenger_ge_max(r) ==
    /\ notna(r.passenger_count)
    /\ \/ r.passenger_count[1] < 0
       \/ r.passenger_count[1] >= 2 * MaxPassengers

\* df["passenger_count"] < 0, then > 6, each set to null (in halves).
passenger_out_of_range(r) ==
    /\ notna(r.passenger_count)
    /\ \/ r.passenger_count[1] < 0
       \/ r.passenger_count[1] > 2 * MaxPassengers

passenger_cap(r) ==
    [r EXCEPT !.passenger_count = IF passenger_out_of_range(r) THEN NA ELSE @]

\* astype("Int64") accepts a Float64 cell only when it is null or whole.
int_castable(x) == isna(x) \/ x[1] % 2 = 0

passenger_int(r) ==
    [r EXCEPT !.passenger_count = IF isna(@) THEN NA ELSE <<@[1] \div 2>>]

-----------------------------------------------------------------------------
(* Stage 7: deduplicate *)

\* dedup_key without DOLocationID.
dedup_key_without_do(r) ==
    << r.VendorID, r.tpep_pickup_datetime, r.tpep_dropoff_datetime,
       r.PULocationID, r.trip_distance, r.fare_amount, r.payment_type >>

\* The columns of `subset`.
dedup_key(r) ==
    << r.VendorID, r.tpep_pickup_datetime, r.tpep_dropoff_datetime,
       r.PULocationID, r.DOLocationID, r.trip_distance, r.fare_amount,
       r.payment_type >>

\* The rows at the positions I, in frame order.
RECURSIVE take(_, _, _)
take(s, I, i) ==
    IF i > Len(s) THEN <<>>
    ELSE (IF i \in I THEN <<s[i]>> ELSE <<>>) \o take(s, I, i + 1)

\* first_occurrences with keep="last".
last_occurrences(s) ==
    {i \in DOMAIN s : \A j \in (i + 1)..Len(s) : dedup_key(s[j]) # dedup_key(s[i])}

\* The positions drop_duplicates(keep="first") keeps: no earlier row has the key.
first_occurrences(s) ==
    {i \in DOMAIN s : \A j \in 1..(i - 1) : dedup_key(s[j]) # dedup_key(s[i])}

drop_duplicates(s) == take(s, first_occurrences(s), 1)

-----------------------------------------------------------------------------
(* Stage 8: zone mapping *)

\* The reference rows a left row joins on its key; the reference holds no null
\* LocationID, so a null key joins none.
zone_matches(ref, key) == SelectSeq(ref, LAMBDA z : z.LocationID = key)

\* A left row with the three prefixed reference columns of one match, or with
\* nulls when nothing matched.
attach(r, side, z) ==
    LET b == side \o "_Borough"
        n == side \o "_Zone"
        v == side \o "_service_zone"
    IN  [f \in DOMAIN r \cup {b, n, v} |->
            IF f = b THEN z.Borough
            ELSE IF f = n THEN z.Zone
            ELSE IF f = v THEN z.service_zone
            ELSE r[f]]

NoZone == [LocationID |-> NA, Borough |-> NA, Zone |-> NA, service_zone |-> NA]

\* df.merge(..., on=<side>LocationID, how="left"): left order is kept and a left
\* row appears once per matching reference row.
RECURSIVE merge_left(_, _, _)
merge_left(frame, ref, side) ==
    IF frame = <<>> THEN <<>>
    ELSE LET r == Head(frame)
             m == zone_matches(ref, r[side \o "LocationID"])
             out == IF m = <<>> THEN <<attach(r, side, NoZone)>>
                    ELSE [k \in DOMAIN m |-> attach(r, side, m[k])]
         IN  out \o merge_left(Tail(frame), ref, side)

\* df["PU_Zone"].isna() | df["DO_Zone"].isna()
unmapped(r) == isna(r.PU_Zone) \/ isna(r.DO_Zone)

mapped(r) == ~unmapped(r)

-----------------------------------------------------------------------------
(* Stages 1 to 13 as one function of the loaded frame *)

\* The frame clean() holds after deduplication, when no statement raised.
rule_engine(f) ==
    LET typed    == [i \in DOMAIN f |-> coerce_row(f[i])]
        vendors  == SelectSeq(typed, vendor_ok)
        coded    == [i \in DOMAIN vendors |-> payment_row(ratecode_row(vendors[i]))]
        ordered  == SelectSeq(coded, order_ok)
        timed    == [i \in DOMAIN ordered |-> duration_row(ordered[i])]
        short    == SelectSeq(timed, duration_ok)
        moving   == SelectSeq(short, not_zero_zero)
        ranged   == SelectSeq(SelectSeq(moving, distance_nonneg), distance_le_max)
        fees     == null_negative_fees(ranged, <<>>, 1)[1]
        paid     == SelectSeq(SelectSeq(fees, fare_ok), total_ok)
        counted  == [i \in DOMAIN paid |->
                        passenger_int(passenger_cap(reconcile_row(paid[i])))]
    IN  drop_duplicates(counted)

-----------------------------------------------------------------------------
(* The inputs: raw trip rows and zone reference tables *)

\* A typical trip; idx is the row's index label in the frame (its position in
\* the raw file), which row filters keep.
BaseRow ==
    [ idx                   |-> 0,
      VendorID              |-> <<1>>,
      tpep_pickup_datetime  |-> <<Minutes(10)>>,
      tpep_dropoff_datetime |-> <<Minutes(40)>>,
      passenger_count       |-> <<2>>,
      trip_distance         |-> <<Miles(3)>>,
      RatecodeID            |-> <<2>>,
      store_and_fwd_flag    |-> <<"N">>,
      PULocationID          |-> <<1>>,
      DOLocationID          |-> <<2>>,
      payment_type          |-> <<1>>,
      fare_amount           |-> <<1000>>,
      extra                 |-> <<100>>,
      mta_tax               |-> <<50>>,
      tip_amount            |-> <<200>>,
      tolls_amount          |-> <<0>>,
      improvement_surcharge |-> <<30>>,
      total_amount          |-> <<1630>>,
      congestion_surcharge  |-> <<250>>,
      airport_fee           |-> <<0>> ]

NoComponents ==
    [c \in {ComponentCols[k] : k \in DOMAIN ComponentCols} |-> NA]

\* BaseRow with every monetary component null and total_amount t.
BlankMoney(t) ==
    [f \in DOMAIN BaseRow |->
        IF f \in DOMAIN NoComponents THEN NA
        ELSE IF f = "total_amount" THEN t ELSE BaseRow[f]]

\* Rows that differ from BaseRow in the identifier and flag columns.
DomainRows ==
         {[BaseRow EXCEPT !.VendorID = v] : v \in {NA, <<3>>, Text("CMT")}}
    \cup {[BaseRow EXCEPT !.payment_type = v] : v \in {NA, <<0>>, <<4>>, <<7>>}}
    \cup {[BaseRow EXCEPT !.RatecodeID = v] : v \in {NA, <<14>>, <<3>>}}
    \cup {[BaseRow EXCEPT !.passenger_count = v] :
            v \in {<<0>>, <<12>>, <<18>>, <<-2>>, <<3>>}}
    \cup {[BaseRow EXCEPT !.store_and_fwd_flag = v] :
            v \in {NA, <<"Y">>, <<"y">>, <<"X">>}}

\* Rows that differ from BaseRow in the timestamps and the distance.
TripRows ==
         {[BaseRow EXCEPT !.tpep_dropoff_datetime = v] :
            v \in {NA, <<Minutes(5)>>, <<Minutes(10)>>, <<Minutes(10) + 4>>,
                   <<Minutes(10 + 1440)>>, <<Minutes(10 + 1440) + 1>>}}
    \cup {[BaseRow EXCEPT !.tpep_pickup_datetime = NA]}
    \cup {[BaseRow EXCEPT !.trip_distance = v] :
            v \in {NA, <<Miles(-1)>>, <<0>>, <<4>>, <<Miles(200)>>, <<Miles(250)>>}}
    \cup {[BaseRow EXCEPT !.tpep_dropoff_datetime = <<Minutes(10)>>,
                          !.trip_distance = v] : v \in {NA, <<0>>}}
    \cup {[BaseRow EXCEPT !.tpep_dropoff_datetime = <<Minutes(5)>>,
                          !.VendorID = <<3>>]}

\* Rows that differ from BaseRow in the monetary columns.
MoneyRows ==
         {[BaseRow EXCEPT !.fare_amount = v] : v \in {NA, <<-500>>, Text("n/a")}}
    \cup {[BaseRow EXCEPT ![FeeCols[k]] = <<-50>>] : k \in DOMAIN FeeCols}
    \cup {[BaseRow EXCEPT !.tip_amount = <<300>>]}
    \cup {[BaseRow EXCEPT !.total_amount = v] :
            v \in {NA, <<-1630>>, <<1631>>, <<10000>>}}
    \cup {[BaseRow EXCEPT !.payment_type = p, !.fare_amount = <<-500>>] :
            p \in {NA, <<4>>}}
    \cup {[BaseRow EXCEPT !.payment_type = p, !.total_amount = t] :
            p \in {NA, <<4>>}, t \in {<<-1630>>, <<10000>>}}
    \cup {BlankMoney(NA), BlankMoney(<<1630>>)}

\* Rows that differ from BaseRow in the location ids.
LocationRows ==
    {[BaseRow EXCEPT !.PULocationID = p, !.DOLocationID = d] :
        p \in {NA, <<1>>, <<3>>}, d \in {<<1>>, <<2>>}}

\* One row for each stage that drops a row or alters a cell.
MixedRows ==
    { [BaseRow EXCEPT !.VendorID = <<3>>],
      [BaseRow EXCEPT !.payment_type = <<0>>],
      [BaseRow EXCEPT !.tpep_dropoff_datetime = <<Minutes(5)>>],
      [BaseRow EXCEPT !.tpep_dropoff_datetime = <<Minutes(10 + 1440) + 1>>],
      [BaseRow EXCEPT !.tpep_dropoff_datetime = <<Minutes(10)>>,
                      !.trip_distance = <<0>>],
      [BaseRow EXCEPT !.trip_distance = <<Miles(-1)>>],
      [BaseRow EXCEPT !.trip_distance = <<Miles(250)>>],
      [BaseRow EXCEPT !.tip_amount = <<-50>>],
      [BaseRow EXCEPT !.fare_amount = <<-500>>],
      [BaseRow EXCEPT !.total_amount = <<-1630>>],
      [BaseRow EXCEPT !.total_amount = <<10000>>],
      [BaseRow EXCEPT !.passenger_count = <<18>>],
      [BaseRow EXCEPT !.PULocationID = <<3>>] }

\* The columns clean() expects in the raw file.
Columns == DOMAIN BaseRow \ {"idx"}

\* A row of a file that has no column c.
without(r, c) == [r EXCEPT ![c] = NA]

\* The families of raw rows a run draws its rows from.
RowFamilies ==
    { {BaseRow} \cup DomainRows, {BaseRow} \cup TripRows,
      {BaseRow} \cup MoneyRows, {BaseRow} \cup MixedRows }

\* A frame holding the given rows, indexed by position as read_csv does.
Frame(rows) == [i \in DOMAIN rows |-> [rows[i] EXCEPT !.idx = i]]

\* raw is a frame of at most MaxRows rows drawn from S.
raw_from(S) == \E n \in 0..MaxRows : \E rows \in [1..n -> S] : raw = Frame(rows)

\* One line of taxi_zone_lookup.csv.
ZoneRec(id, zone) ==
    [LocationID |-> <<id>>, Borough |-> <<"Manhattan">>, Zone |-> zone,
     service_zone |-> <<"Yellow Zone">>]

ZoneRecs ==
    { ZoneRec(1, <<"Alphabet City">>), ZoneRec(1, NA),
      ZoneRec(2, <<"Astoria">>), ZoneRec(2, NA) }

\* The regular reference: every LocationID once, with its zone name.
ZonesGood == << ZoneRec(1, <<"Alphabet City">>), ZoneRec(2, <<"Astoria">>) >>

\* zones is a reference of at most MaxZones lines drawn from ZoneRecs.
zones_from(S) == \E n \in 1..MaxZones : zones \in [1..n -> S]

-----------------------------------------------------------------------------
(* The state before clean() runs *)

Init ==
    /\ \/ (\E S \in RowFamilies : raw_from(S)) /\ zones = ZonesGood /\ absent = {}
       \/ raw_from(LocationRows) /\ zones_from(ZoneRecs) /\ absent = {}
       \/ \E c \in Columns :
             raw_from({without(BaseRow, c)}) /\ zones = ZonesGood /\ absent = {c}
    /\ df = <<>>
    /\ report = <<>>
    /\ pc = "read_inputs"
    /\ clean_csv = <<>>
    /\ report_md = <<>>
    /\ checks = <<>>
    /\ error = <<>>

-----------------------------------------------------------------------------
(* clean(): one action per stage, in the order of the code *)

\* before = len(df); df = <kept>; _log(report, label, before - len(df))
drop_stage(kept, label) ==
    /\ df' = kept
    /\ report' = _log(report, label, Len(df) - Len(kept))

\* The same, with the line written only `if dropped:`.
drop_stage_quiet(kept, label) ==
    /\ df' = kept
    /\ report' = _log_if(report, label, Len(df) - Len(kept))

outputs == <<clean_csv, report_md, checks, error>>

\* The columns read_csv is given a nullable numeric dtype for.
TypedCols ==
    { "VendorID", "PULocationID", "DOLocationID", "payment_type", "RatecodeID",
      "passenger_count" }

\* The columns of parse_dates.
DateCols == {"tpep_pickup_datetime", "tpep_dropoff_datetime"}

\* A field of a typed column holds text: read_csv cannot cast the column.
untypable(f) == \E i \in DOMAIN f : \E c \in TypedCols : is_text(f[i][c])

\* The columns a stage of clean() reads as df[col], without testing for them.
stage_columns(p) ==
    CASE p = "read_inputs" -> DateCols
      [] p = "vendor" -> {"VendorID"}
      [] p = "ratecode" -> {"RatecodeID"}
      [] p = "payment" -> {"payment_type"}
      [] p \in {"bad_order", "duration"} -> DateCols
      [] p \in {"zero_zero", "neg_distance", "extreme_distance"} -> {"trip_distance"}
      [] p = "neg_fees" -> {FeeCols[k] : k \in DOMAIN FeeCols}
      [] p = "neg_fare" -> {"payment_type", "fare_amount"}
      [] p = "neg_total" -> {"payment_type", "total_amount"}
      [] p = "reconcile" ->
            {ComponentCols[k] : k \in DOMAIN ComponentCols} \cup {"total_amount"}
      [] p = "passenger" -> {"passenger_count"}
      [] p = "dedup" ->
            { "VendorID", "tpep_pickup_datetime", "tpep_dropoff_datetime",
              "PULocationID", "DOLocationID", "trip_distance", "fare_amount",
              "payment_type" }
      [] p = "merge_pu" -> {"PULocationID"}
      [] p = "merge_do" -> {"DOLocationID"}
      [] p = "final_types" ->
            {"VendorID", "PULocationID", "DOLocationID", "payment_type"}
                \cup {NumericCols[k] : k \in DOMAIN NumericCols}
      [] p = "cleaned" -> {"store_and_fwd_flag"}
      [] OTHER -> {}

\* Control is at the stage and the raw file has every column the stage reads.
at(stage) == pc = stage /\ stage_columns(stage) \cap absent = {}

\* Control is at a stage of clean() that reads a column the raw file lacks:
\* df[col] raises KeyError and clean() ends.
MissingColumn ==
    /\ pc \notin {"read_inputs", "cleaned"}
    /\ stage_columns(pc) \cap absent # {}
    /\ pc' = "failed"
    /\ error' = <<"KeyError">>
    /\ UNCHANGED <<raw, zones, absent, df, report, clean_csv, report_md, checks>>

\* What pd.read_csv raises when a file is missing or is not tabular data.
ReadErrors == {"FileNotFoundError", "ParserError"}

\* What to_csv, os.makedirs and open raise when a path cannot be written.
WriteErrors == {"OSError"}

\* df, zones = _read_inputs(), then the first report line; when either
\* read_csv raises, clean() ends there with nothing loaded and nothing logged.
\* read_csv raises ValueError when a typed column holds text and when a column
\* of parse_dates is missing.
ReadInputs ==
    /\ pc = "read_inputs"
    /\ \/ /\ ~untypable(raw)
          /\ stage_columns(pc) \cap absent = {}
          /\ df' = raw
          /\ report' = _log(report, "Loaded raw rows", Len(raw))
          /\ pc' = "coerce"
          /\ error' = error
       \/ /\ \E e \in ReadErrors \cup
                    (IF untypable(raw) \/ stage_columns(pc) \cap absent # {}
                     THEN {"ValueError"} ELSE {}) : error' = <<e>>
          /\ pc' = "failed"
          /\ UNCHANGED <<df, report>>
    /\ UNCHANGED <<raw, zones, absent, clean_csv, report_md, checks>>

Coerce ==
    /\ at("coerce")
    /\ df' = [i \in DOMAIN df |-> coerce_row(df[i])]
    /\ pc' = "vendor"
    /\ UNCHANGED <<raw, zones, absent, report, outputs>>

DropInvalidVendor ==
    /\ at("vendor")
    /\ drop_stage(SelectSeq(df, vendor_ok), "Dropped invalid VendorID rows")
    /\ pc' = "ratecode"
    /\ UNCHANGED <<raw, zones, absent, outputs>>

NullRatecode ==
    /\ at("ratecode")
    /\ df' = [i \in DOMAIN df |-> ratecode_row(df[i])]
    /\ pc' = "payment"
    /\ UNCHANGED <<raw, zones, absent, report, outputs>>

NullPaymentZero ==
    /\ at("payment")
    /\ df' = [i \in DOMAIN df |-> payment_row(df[i])]
    /\ pc' = "bad_order"
    /\ UNCHANGED <<raw, zones, absent, report, outputs>>

DropBadOrder ==
    /\ at("bad_order")
    /\ drop_stage(SelectSeq(df, order_ok), "Dropped dropoff<pickup")
    /\ pc' = "duration"
    /\ UNCHANGED <<raw, zones, absent, outputs>>

ComputeDuration ==
    /\ at("duration")
    /\ df' = [i \in DOMAIN df |-> duration_row(df[i])]
    /\ pc' = "long_duration"
    /\ UNCHANGED <<raw, zones, absent, report, outputs>>

DropLongDuration ==
    /\ at("long_duration")
    /\ drop_stage(SelectSeq(df, duration_ok), "Dropped >24h duration")
    /\ pc' = "zero_zero"
    /\ UNCHANGED <<raw, zones, absent, outputs>>

DropZeroZero ==
    /\ at("zero_zero")
    /\ drop_stage(SelectSeq(df, not_zero_zero), "Dropped zero-minute with zero-distance")
    /\ pc' = "neg_distance"
    /\ UNCHANGED <<raw, zones, absent, outputs>>

DropNegativeDistance ==
    /\ at("neg_distance")
    /\ drop_stage(SelectSeq(df, distance_nonneg), "Dropped negative distance")
    /\ pc' = "extreme_distance"
    /\ UNCHANGED <<raw, zones, absent, outputs>>

DropExtremeDistance ==
    /\ at("extreme_distance")
    /\ drop_stage(SelectSeq(df, distance_le_max), "Dropped extreme distance >200mi")
    /\ pc' = "neg_fees"
    /\ UNCHANGED <<raw, zones, absent, outputs>>

NullNegativeFees ==
    /\ at("neg_fees")
    /\ LET after == null_negative_fees(df, report, 1)
       IN  df' = after[1] /\ report' = after[2]
    /\ pc' = "neg_fare"
    /\ UNCHANGED <<raw, zones, absent, outputs>>

DropNegativeFare ==
    /\ at("neg_fare")
    /\ drop_stage_quiet(SelectSeq(df, fare_ok), "Dropped negative fare for non-adjustment payments")
    /\ pc' = "neg_total"
    /\ UNCHANGED <<raw, zones, absent, outputs>>

DropNegativeTotal ==
    /\ at("neg_total")
    /\ drop_stage_quiet(SelectSeq(df, total_ok), "Dropped negative total for non-adjustment payments")
    /\ pc' = "reconcile"
    /\ UNCHANGED <<raw, zones, absent, outputs>>

ReconcileTotal ==
    /\ at("reconcile")
    /\ df' = [i \in DOMAIN df |-> reconcile_row(df[i])]
    /\ report' = _log(report, "Replaced mismatched total_amount", 
                    Cardinality({i \in DOMAIN df : mismatch(df[i])}))
    /\ pc' = "passenger"
    /\ UNCHANGED <<raw, zones, absent, outputs>>

\* The cast to Int64 of a capped count that is not whole depends on the pandas
\* in use: it cuts the fraction off (Float64 to Int64 between masked arrays) or
\* raises TypeError (float64 to Int64, "cannot safely cast").
CapPassengers ==
    /\ at("passenger")
    /\ LET capped == [i \in DOMAIN df |-> passenger_cap(df[i])]
       IN  \/ /\ df' = [i \in DOMAIN capped |-> passenger_int(capped[i])]
              /\ pc' = "dedup"
              /\ error' = error
           \/ /\ \E i \in DOMAIN capped : ~int_castable(capped[i].passenger_count)
              /\ df' = capped
              /\ pc' = "failed"
              /\ error' = <<"TypeError">>
    /\ UNCHANGED <<raw, zones, absent, report, clean_csv, report_md, checks>>

Deduplicate ==
    /\ at("dedup")
    /\ LET kept == drop_duplicates(df)
       IN  /\ df' = kept
           /\ report' = _log(report, "Dropped exact duplicates", Len(df) - Len(kept))
    /\ pc' = "merge_pu"
    /\ UNCHANGED <<raw, zones, absent, outputs>>

MergePickup ==
    /\ at("merge_pu")
    /\ df' = merge_left(df, zones, "PU")
    /\ pc' = "merge_do"
    /\ UNCHANGED <<raw, zones, absent, report, outputs>>

MergeDropoff ==
    /\ at("merge_do")
    /\ df' = merge_left(df, zones, "DO")
    /\ pc' = "unmapped"
    /\ UNCHANGED <<raw, zones, absent, report, outputs>>

DropUnmapped ==
    /\ at("unmapped")
    /\ drop_stage(SelectSeq(df, mapped), "Dropped rows with unmapped PU/DO zones")
    /\ pc' = "final_types"
    /\ UNCHANGED <<raw, zones, absent, outputs>>

\* Every cell already has the nullable type it is cast to: no value changes.
FinalTypes ==
    /\ at("final_types")
    /\ pc' = "to_csv"
    /\ UNCHANGED <<raw, zones, absent, df, report, outputs>>

\* df.to_csv(CLEAN_CSV, index=False): a null cell is written as an empty field.
\* When the file cannot be opened for writing, to_csv raises and clean() ends.
WriteClean ==
    /\ at("to_csv")
    /\ \/ /\ clean_csv' = <<df>>
          /\ pc' = "write_report"
          /\ error' = error
       \/ /\ \E e \in WriteErrors : error' = <<e>>
          /\ pc' = "failed"
          /\ clean_csv' = clean_csv
    /\ UNCHANGED <<raw, zones, absent, df, report, report_md, checks>>

\* os.makedirs and open run after to_csv has returned; when one of them raises,
\* clean() ends with the clean dataset on disk and no report.
WriteReport ==
    /\ at("write_report")
    /\ \/ /\ report_md' = <<_log(report, "Final rows", Len(df))>>
          /\ pc' = "cleaned"
          /\ error' = error
       \/ /\ \E e \in WriteErrors : error' = <<e>>
          /\ pc' = "failed"
          /\ report_md' = report_md
    /\ UNCHANGED <<raw, zones, absent, df, report, clean_csv, checks>>

-----------------------------------------------------------------------------
(* verify_cleaning.main() on the written clean dataset *)

\* An empty field is read back as NaN: isin and every comparison are False on it.
v_vendor(r) == isin(r.VendorID, VENDORS)
v_ratecode(r) == isna(r.RatecodeID) \/ isin(r.RatecodeID, RATECODES)
v_payment(r) == isna(r.payment_type) \/ isin(r.payment_type, PAYMENTS)
v_saf(r) == isna(r.store_and_fwd_flag) \/ isin(r.store_and_fwd_flag, FLAGS)

v_distance(r) ==
    /\ notna(r.trip_distance)
    /\ r.trip_distance[1] >= 0
    /\ r.trip_distance[1] <= Miles(MaxDistanceMi)

v_order(r) ==
    /\ notna(r.tpep_dropoff_datetime)
    /\ notna(r.tpep_pickup_datetime)
    /\ r.tpep_dropoff_datetime[1] >= r.tpep_pickup_datetime[1]

v_duration(r) ==
    notna(r.trip_duration_min) /\ r.trip_duration_min[1] <= Minutes(MaxDurationMin)

v_zero_minute(r) ==
    notna(r.trip_duration_min) /\ Round5(r.trip_duration_min[1]) = 0

v_zero(r) ==
    ~v_zero_minute(r) \/ (notna(r.trip_distance) /\ Round5(r.trip_distance[1]) > 0)

\* ~df["payment_type"].isin([4, 6]).fillna(False)
v_non_adj(r) == ~isin(r.payment_type, ADJUSTMENTS)

v_fare(r) == v_non_adj(r) => (notna(r.fare_amount) /\ r.fare_amount[1] >= 0)
v_total(r) == v_non_adj(r) => (notna(r.total_amount) /\ r.total_amount[1] >= 0)

\* fare.fillna(0) + extra.fillna(0) + ... + airport_fee.fillna(0)
RECURSIVE comp_from(_, _)
comp_from(r, k) ==
    IF k > Len(ComponentCols) THEN 0
    ELSE fillna(r[ComponentCols[k]], 0) + comp_from(r, k + 1)

comp(r) == comp_from(r, 1)

v_total_matches(r) == Abs(fillna(r.total_amount, 0) - comp(r)) <= Tolerance

v_pu_zone(r) == notna(r.PU_Zone)
v_do_zone(r) == notna(r.DO_Zone)

run_checks(d) ==
    [ vendor_valid                 |-> (\A i \in DOMAIN d : v_vendor(d[i])),
      ratecode_valid               |-> (\A i \in DOMAIN d : v_ratecode(d[i])),
      payment_valid                |-> (\A i \in DOMAIN d : v_payment(d[i])),
      saf_valid                    |-> (\A i \in DOMAIN d : v_saf(d[i])),
      distance_range               |-> (\A i \in DOMAIN d : v_distance(d[i])),
      drop_ge_pick                 |-> (\A i \in DOMAIN d : v_order(d[i])),
      dur_le_24h                   |-> (\A i \in DOMAIN d : v_duration(d[i])),
      zero_min_distance_positive   |-> (\A i \in DOMAIN d : v_zero(d[i])),
      fare_nonneg_when_not_adjust  |-> (\A i \in DOMAIN d : v_fare(d[i])),
      total_nonneg_when_not_adjust |-> (\A i \in DOMAIN d : v_total(d[i])),
      total_matches_components     |-> (\A i \in DOMAIN d : v_total_matches(d[i])),
      pu_zone_present              |-> (\A i \in DOMAIN d : v_pu_zone(d[i])),
      do_zone_present              |-> (\A i \in DOMAIN d : v_do_zone(d[i])) ]

\* df["store_and_fwd_flag"] raises KeyError on a clean dataset without the
\* column, and main() ends before its report.
Verify ==
    /\ pc = "cleaned"
    /\ IF stage_columns(pc) \cap absent = {}
       THEN checks' = <<run_checks(clean_csv[1])>> /\ pc' = "verified"
       ELSE checks' = checks /\ pc' = "verify_failed"
    /\ UNCHANGED <<raw, zones, absent, df, report, clean_csv, report_md, error>>

-----------------------------------------------------------------------------

Next ==
    \/ ReadInputs
    \/ MissingColumn
    \/ Coerce
    \/ DropInvalidVendor
    \/ NullRatecode
    \/ NullPaymentZero
    \/ DropBadOrder
    \/ ComputeDuration
    \/ DropLongDuration
    \/ DropZeroZero
    \/ DropNegativeDistance
    \/ DropExtremeDistance
    \/ NullNegativeFees
    \/ DropNegativeFare
    \/ DropNegativeTotal
    \/ ReconcileTotal
    \/ CapPassengers
    \/ Deduplicate
    \/ MergePickup
    \/ MergeDropoff
    \/ DropUnmapped
    \/ FinalTypes
    \/ WriteClean
    \/ WriteReport
    \/ Verify

Spec == Init /\ [][Next]_vars

-----------------------------------------------------------------------------
(* Properties of the clean dataset and of the reports *)

\* The rows of NYC_YELLOW_TAXI_CLEAN.csv once it is written.
written == clean_csv # <<>>
out == clean_csv[1]

\* The count of the (last) report line with the given label, 0 when absent.
line_count(rep, label) ==
    LET K == {k \in DOMAIN rep : rep[k][1] = label}
    IN  IF K = {} THEN 0 ELSE rep[CHOOSE k \in K : \A j \in K : j <= k][2]

has_line(rep, label) == \E k \in DOMAIN rep : rep[k][1] = label

nonneg_or_null(x) == isna(x) \/ x[1] >= 0

\* C1: on every clean output, each check of the verifier is PASS.
C1_VerifierAllPass ==
    checks # <<>> => \A name \in DOMAIN checks[1] : checks[1][name]

\* C2: every row of the clean output has total_amount within 0.01 of the sum
\* of its eight components (nulls as 0), also when the raw total was null.
C2_TotalMatchesComponents ==
    written =>
        \A i \in DOMAIN out :
            Abs(fillna(out[i].total_amount, 0) - comp(out[i])) <= 1

\* C3: every row of the clean output has VendorID in {1,2}, RatecodeID in 1..6,
\* payment_type in 1..6 and store_and_fwd_flag in {Y,N}, each or null.
C3_DomainClosure ==
    written =>
        \A i \in DOMAIN out :
            /\ isna(out[i].VendorID) \/ out[i].VendorID[1] \in {1, 2}
            /\ isna(out[i].RatecodeID) \/ out[i].RatecodeID[1] \in 1..6
            /\ isna(out[i].payment_type) \/ out[i].payment_type[1] \in 1..6
            /\ isna(out[i].store_and_fwd_flag)
                  \/ out[i].store_and_fwd_flag[1] \in {"Y", "N"}

\* C4: no two rows of the clean output share the 8-field dedup key, whatever
\* the zone reference.
C4_DuplicateFree ==
    written =>
        \A i, j \in DOMAIN out : i # j => dedup_key(out[i]) # dedup_key(out[j])

\* A location id with no zone name in the reference: null, absent, or listed
\* with a null Zone only.
no_zone_name(id) ==
    ~\E k \in DOMAIN zones : zones[k].LocationID = id /\ notna(zones[k].Zone)

nameless(r) == no_zone_name(r.PULocationID) \/ no_zone_name(r.DOLocationID)

\* C5: every output row has PU_Zone and DO_Zone; a deduplicated row is dropped
\* by the zone stage exactly when one of its ids has no zone name, and the
\* number of such rows is the reported count.
C5_ZoneCompleteness ==
    written =>
        LET pre == rule_engine(raw)
        IN  /\ \A i \in DOMAIN out : notna(out[i].PU_Zone) /\ notna(out[i].DO_Zone)
            /\ \A k \in DOMAIN pre :
                  nameless(pre[k]) <=> ~\E i \in DOMAIN out : out[i].idx = pre[k].idx
            /\ line_count(report, "Dropped rows with unmapped PU/DO zones")
                  = Cardinality({k \in DOMAIN pre : nameless(pre[k])})

\* C6: from the load on, no step of clean() increases the number of rows.
C6_RowCountNeverIncreases ==
    [][pc # "read_inputs" => Len(df') <= Len(df)]_vars

\* The rows of a frame, which differ in idx as long as no merge has run.
in_frame(r, f) == \E j \in DOMAIN f : f[j] = r

\* The raw row an output row comes from.
origin(r) == raw[r.idx]

\* C7: in the clean output every row whose payment_type is not 4 or 6 (null
\* included) has fare_amount and total_amount non-negative or null, also after
\* the reconciliation overwrote total_amount.
C7_NonAdjustmentNonNegative ==
    written =>
        \A i \in DOMAIN out :
            (isna(out[i].payment_type) \/ out[i].payment_type[1] \notin {4, 6})
                => /\ nonneg_or_null(out[i].fare_amount)
                   /\ nonneg_or_null(out[i].total_amount)

\* A row with null payment_type is in the output with its total overwritten.
C7_Witness ==
    /\ written
    /\ \E i \in DOMAIN out :
          /\ isna(out[i].payment_type)
          /\ notna(out[i].total_amount)
          /\ out[i].total_amount # origin(out[i]).total_amount

\* C8 as stated: in the clean output each of the eight monetary components,
\* fare_amount included, is non-negative or null.
C8_AllComponentsNonNegative ==
    written =>
        \A i \in DOMAIN out :
            /\ nonneg_or_null(out[i].fare_amount)
            /\ \A k \in DOMAIN FeeCols : nonneg_or_null(out[i][FeeCols[k]])

SevenFees ==
    { "extra", "mta_tax", "tip_amount", "tolls_amount",
      "improvement_surcharge", "congestion_surcharge", "airport_fee" }

negatives_in(f, col) ==
    Cardinality({i \in DOMAIN f : notna(f[i][col]) /\ f[i][col][1] < 0})

\* C8 as amended: the seven fee fields are non-negative or null in the clean
\* output and fare_amount is so on rows whose payment_type is not 4 or 6; the
\* fee stage keeps every row, nulls exactly the negative fee cells and writes,
\* for each fee column with a negative value, the number nulled.
C8_FeesNonNegative ==
    /\ [](written =>
            \A i \in DOMAIN out :
                /\ \A col \in SevenFees : nonneg_or_null(out[i][col])
                /\ (isna(out[i].payment_type) \/ out[i].payment_type[1] \notin {4, 6})
                      => nonneg_or_null(out[i].fare_amount))
    /\ [][pc = "neg_fees" =>
            /\ Len(df') = Len(df)
            /\ \A i \in DOMAIN df :
                  /\ \A col \in SevenFees :
                        df'[i][col] =
                            IF notna(df[i][col]) /\ df[i][col][1] < 0
                            THEN NA ELSE df[i][col]
                  /\ \A f \in DOMAIN df[i] \ SevenFees : df'[i][f] = df[i][f]
            /\ \A col \in SevenFees :
                  /\ has_line(report', "Set negatives to NA for " \o col)
                        <=> negatives_in(df, col) > 0
                  /\ line_count(report', "Set negatives to NA for " \o col)
                        = negatives_in(df, col)]_vars

\* The output holds a row whose negative fee was nulled and reported, and a
\* dispute row whose fare_amount is still negative.
C8_Witness ==
    /\ report_md # <<>>
    /\ \E i \in DOMAIN out : \E col \in SevenFees :
          /\ notna(origin(out[i])[col]) /\ origin(out[i])[col][1] < 0
          /\ isna(out[i][col])
          /\ line_count(report_md[1], "Set negatives to NA for " \o col) = 1
    /\ \E i \in DOMAIN out :
          out[i].payment_type = <<4>> /\ out[i].fare_amount[1] < 0

\* C9: every output row has trip_distance in [0, 200] miles or null; the
\* negative-distance filter drops exactly the rows below 0 and the
\* extreme-distance filter exactly the rows above 200, so rows at 0, at 200 and
\* with null distance pass both.
C9_DistanceRange ==
    /\ [](written =>
            \A i \in DOMAIN out :
                \/ isna(out[i].trip_distance)
                \/ /\ out[i].trip_distance[1] >= 0
                   /\ out[i].trip_distance[1] <= 200 * 1000000)
    /\ [][pc = "neg_distance" =>
            \A i \in DOMAIN df :
                in_frame(df[i], df') <=>
                    (isna(df[i].trip_distance) \/ df[i].trip_distance[1] >= 0)]_vars
    /\ [][pc = "extreme_distance" =>
            \A i \in DOMAIN df :
                in_frame(df[i], df') <=>
                    (isna(df[i].trip_distance)
                        \/ df[i].trip_distance[1] <= 200 * 1000000)]_vars

\* A 200-mile row is in the output and a 250-mile row of the same file is not.
C9_Witness ==
    /\ written
    /\ \E i \in DOMAIN out : out[i].trip_distance = <<200 * 1000000>>
    /\ \E k \in DOMAIN raw :
          /\ raw[k].trip_distance = <<250 * 1000000>>
          /\ \A i \in DOMAIN out : out[i].idx # k

\* dropoff before pickup, both present.
reversed(r) ==
    /\ notna(r.tpep_dropoff_datetime)
    /\ notna(r.tpep_pickup_datetime)
    /\ r.tpep_dropoff_datetime[1] < r.tpep_pickup_datetime[1]

\* C10: the dropoff<pickup stage drops exactly the rows with dropoff before
\* pickup, and the count it reports is the number of raw rows with a valid or
\* null VendorID and dropoff before pickup.
C10_BadOrderDropped ==
    /\ [](has_line(report, "Dropped dropoff<pickup") =>
            line_count(report, "Dropped dropoff<pickup") =
                Cardinality({k \in DOMAIN raw :
                    /\ isna(raw[k].VendorID) \/ raw[k].VendorID[1] \in {1, 2}
                    /\ reversed(raw[k])}))
    /\ [][pc = "bad_order" =>
            /\ \A i \in DOMAIN df : in_frame(df[i], df') <=> ~reversed(df[i])
            /\ report' = Append(report,
                  <<"Dropped dropoff<pickup",
                    Cardinality({i \in DOMAIN df : reversed(df[i])})>>)]_vars

\* Two raw rows have dropoff before pickup, one of them with an invalid
\* VendorID, and the reported count is 1.
C10_Witness ==
    /\ line_count(report, "Dropped dropoff<pickup") = 1
    /\ Cardinality({k \in DOMAIN raw : reversed(raw[k])}) = 2

\* A value that rounds to 0 at 5 decimals (ties to even), in millionths.
near_zero(x) == x >= -5 /\ x <= 5

zero_duration_row(r) ==
    notna(r.trip_duration_min) /\ near_zero(r.trip_duration_min[1])

zero_distance_row(r) == notna(r.trip_distance) /\ near_zero(r.trip_distance[1])

\* C11: no output row has duration and distance both 0 after rounding to 5
\* decimals; the zero/zero stage drops every such row and keeps a row with
\* zero duration and positive distance or positive duration and zero distance.
C11_NoZeroZero ==
    /\ [](written =>
            \A i \in DOMAIN out :
                ~(zero_duration_row(out[i]) /\ zero_distance_row(out[i])))
    /\ [][pc = "zero_zero" =>
            \A i \in DOMAIN df :
                /\ (zero_duration_row(df[i]) /\ zero_distance_row(df[i]))
                      => ~in_frame(df[i], df')
                /\ (/\ zero_duration_row(df[i])
                    /\ notna(df[i].trip_distance)
                    /\ df[i].trip_distance[1] > 5) => in_frame(df[i], df')
                /\ (/\ notna(df[i].trip_duration_min)
                    /\ df[i].trip_duration_min[1] > 5
                    /\ zero_distance_row(df[i])) => in_frame(df[i], df')]_vars

\* Of two raw rows with dropoff equal to pickup, the one with distance 0 is not
\* in the output and the one with a positive distance is.
C11_Witness ==
    /\ written
    /\ \E k \in DOMAIN raw :
          /\ raw[k].tpep_dropoff_datetime = raw[k].tpep_pickup_datetime
          /\ raw[k].trip_distance = <<0>>
          /\ \A i \in DOMAIN out : out[i].idx # k
    /\ \E i \in DOMAIN out :
          /\ out[i].trip_duration_min = <<0>>
          /\ out[i].trip_distance[1] > 5

\* C12: every output row has a duration, equal to dropoff minus pickup, between
\* 0 and 1440 minutes; the >24h stage keeps a row of at most 1440 minutes and
\* drops a row of more.
C12_DurationAtMost24h ==
    /\ [](written =>
            \A i \in DOMAIN out :
                /\ notna(out[i].trip_duration_min)
                /\ notna(out[i].tpep_dropoff_datetime)
                /\ notna(out[i].tpep_pickup_datetime)
                /\ out[i].trip_duration_min[1] =
                      out[i].tpep_dropoff_datetime[1] - out[i].tpep_pickup_datetime[1]
                /\ out[i].trip_duration_min[1] >= 0
                /\ out[i].trip_duration_min[1] <= 1440 * 1000000)
    /\ [][pc = "long_duration" =>
            \A i \in DOMAIN df :
                notna(df[i].trip_duration_min) =>
                    (in_frame(df[i], df')
                        <=> df[i].trip_duration_min[1] <= 1440 * 1000000)]_vars

\* A row of exactly 1440 minutes is in the output and a longer row of the same
\* file is not.
C12_Witness ==
    /\ written
    /\ \E i \in DOMAIN out : out[i].trip_duration_min = <<1440 * 1000000>>
    /\ \E k \in DOMAIN raw :
          /\ notna(raw[k].tpep_dropoff_datetime)
          /\ notna(raw[k].tpep_pickup_datetime)
          /\ raw[k].tpep_dropoff_datetime[1] - raw[k].tpep_pickup_datetime[1]
                > 1440 * 1000000
          /\ \A i \in DOMAIN out : out[i].idx # k

\* C13: every output row has passenger_count in 0..6 or null; the passenger
\* stage keeps every row, nulls a count below 0 or above 6 and leaves a whole
\* count from 0 to 6 (and a null) as it is. Before the stage the count is held
\* in halves.
C13_PassengerRange ==
    /\ [](written =>
            \A i \in DOMAIN out :
                isna(out[i].passenger_count) \/ out[i].passenger_count[1] \in 0..6)
    /\ [][(pc = "passenger" /\ pc' = "dedup") =>
            /\ Len(df') = Len(df)
            /\ \A i \in DOMAIN df :
                  LET p == df[i].passenger_count
                      q == df'[i].passenger_count
                  IN  /\ df'[i].idx = df[i].idx
                      /\ isna(p) => isna(q)
                      /\ (notna(p) /\ (p[1] < 0 \/ p[1] > 12)) => isna(q)
                      /\ (notna(p) /\ p[1] \in {0, 2, 4, 6, 8, 10, 12})
                            => q = <<p[1] \div 2>>]_vars

\* After the passenger stage the frame holds a row whose raw count 9 is now
\* null and a row whose raw count 6 is still 6.
C13_Witness ==
    /\ pc = "dedup"
    /\ \E i \in DOMAIN df :
          origin(df[i]).passenger_count = <<18>> /\ isna(df[i].passenger_count)
    /\ \E i \in DOMAIN df :
          origin(df[i]).passenger_count = <<12>> /\ df[i].passenger_count = <<6>>

\* The eight monetary components added up, a null one counting as 0.
component_sum(r) ==
    fillna(r.fare_amount, 0) + fillna(r.extra, 0) + fillna(r.mta_tax, 0)
        + fillna(r.tip_amount, 0) + fillna(r.tolls_amount, 0)
        + fillna(r.improvement_surcharge, 0)
        + fillna(r.congestion_surcharge, 0) + fillna(r.airport_fee, 0)

\* C14: the reconciliation stage keeps every row; a non-null total_amount more
\* than 0.01 away from the sum of the eight components (nulls as 0) is replaced
\* by that sum, one within 0.01 is left as it is, and the count written to the
\* report is the number of rows whose total_amount changed.
C14_ReconcileOverwrites ==
    [][pc = "reconcile" =>
        /\ Len(df') = Len(df)
        /\ \A i \in DOMAIN df :
              LET t == df[i].total_amount
                  s == component_sum(df[i])
              IN  /\ df'[i].idx = df[i].idx
                  /\ (notna(t) /\ (t[1] - s > 1 \/ s - t[1] > 1))
                        => df'[i].total_amount = <<s>>
                  /\ (notna(t) /\ t[1] - s <= 1 /\ s - t[1] <= 1)
                        => df'[i].total_amount = t
        /\ report' = Append(report,
              <<"Replaced mismatched total_amount",
                Cardinality({i \in DOMAIN df :
                    df'[i].total_amount # df[i].total_amount})>>)]_vars

\* After the reconciliation the frame holds a row whose total of 100.00 is now
\* the component sum 16.30 and a row whose total of 16.31 is unchanged, and the
\* reported count is 1.
C14_Witness ==
    /\ pc = "passenger"
    /\ \E i \in DOMAIN df :
          /\ origin(df[i]).total_amount = <<10000>>
          /\ df[i].total_amount = <<1630>>
    /\ \E i \in DOMAIN df :
          /\ origin(df[i]).total_amount = <<1631>>
          /\ df[i].total_amount = <<1631>>
    /\ line_count(report, "Replaced mismatched total_amount") = 1

\* The eight fields of the duplicate key.
key8(r) ==
    << r.VendorID, r.tpep_pickup_datetime, r.tpep_dropoff_datetime,
       r.PULocationID, r.DOLocationID, r.trip_distance, r.fare_amount,
       r.payment_type >>

\* C15: the dedup stage keeps, in their order, exactly the rows that no earlier
\* row of the frame matches on the 8-field key, whatever the other fields
\* hold, and reports the number of rows it removed.
C15_KeepFirst ==
    [][(pc = "dedup" /\ pc' = "merge_pu") =>
        /\ \A i \in DOMAIN df :
              in_frame(df[i], df')
                  <=> ~\E j \in 1..(i - 1) : key8(df[j]) = key8(df[i])
        /\ \A a \in DOMAIN df' : in_frame(df'[a], df)
        /\ \A a, b \in DOMAIN df' : a < b => df'[a].idx < df'[b].idx
        /\ report' = Append(report,
              <<"Dropped exact duplicates", Len(df) - Len(df')>>)]_vars

\* Two raw rows agree on the key and differ in tip_amount; the output holds
\* the first only and one duplicate is reported.
C15_Witness ==
    /\ written
    /\ Len(raw) = 2
    /\ key8(raw[1]) = key8(raw[2])
    /\ raw[1].tip_amount # raw[2].tip_amount
    /\ Len(out) = 1
    /\ out[1].idx = 1
    /\ line_count(report, "Dropped exact duplicates") = 1

\* C16: each row-dropping filter keeps a row whose filtered field is null:
\* VendorID at the vendor filter, a timestamp (hence the duration) at the
\* dropoff<pickup and >24h filters, trip_distance at the zero/zero and the two
\* distance filters, fare_amount and total_amount at the negative fare and
\* total filters.
C16_NullPass ==
    /\ [][pc = "vendor" =>
            \A i \in DOMAIN df : isna(df[i].VendorID) => in_frame(df[i], df')]_vars
    /\ [][pc = "bad_order" =>
            \A i \in DOMAIN df :
                (isna(df[i].tpep_pickup_datetime) \/ isna(df[i].tpep_dropoff_datetime))
                    => in_frame(df[i], df')]_vars
    /\ [][pc = "long_duration" =>
            \A i \in DOMAIN df :
                isna(df[i].trip_duration_min) => in_frame(df[i], df')]_vars
    /\ [][(pc \in {"zero_zero", "neg_distance", "extreme_distance"}) =>
            \A i \in DOMAIN df :
                isna(df[i].trip_distance) => in_frame(df[i], df')]_vars
    /\ [][pc = "neg_fare" =>
            \A i \in DOMAIN df :
                isna(df[i].fare_amount) => in_frame(df[i], df')]_vars
    /\ [][pc = "neg_total" =>
            \A i \in DOMAIN df :
                isna(df[i].total_amount) => in_frame(df[i], df')]_vars

\* The stages of the Rule Engine that remove rows or alter values.
ReportingStages ==
    { "coerce", "vendor", "ratecode", "payment", "bad_order", "long_duration",
      "zero_zero", "neg_distance", "extreme_distance", "neg_fees", "neg_fare",
      "neg_total", "reconcile", "passenger", "dedup", "unmapped" }

\* C17: every stage that removes rows or alters values, the value-nulling
\* stages included, adds its count to the report in every run.
C17_EveryStageReports ==
    [][(pc \in ReportingStages /\ pc' # "failed")
            => Len(report') > Len(report)]_vars

\* C18: the verifier has a check for each invariant of the clean dataset, so a
\* dataset with two rows sharing the 8-field key, with a passenger_count
\* outside 0..6, or with a negative monetary component gets at least one FAIL.
C18_VerifierCoversInvariants ==
    checks # <<>> =>
        ( (\/ \E i, j \in DOMAIN out : i # j /\ key8(out[i]) = key8(out[j])
           \/ \E i \in DOMAIN out :
                 /\ notna(out[i].passenger_count)
                 /\ out[i].passenger_count[1] \notin 0..6
           \/ \E i \in DOMAIN out : \E col \in SevenFees \cup {"fare_amount"} :
                 notna(out[i][col]) /\ out[i][col][1] < 0)
          => \E name \in DOMAIN checks[1] : ~checks[1][name] )

not_adjustment(r) == isna(r.payment_type) \/ r.payment_type[1] \notin {4, 6}

\* C19: vendor_valid, distance_range, fare_nonneg_when_not_adjust and
\* total_nonneg_when_not_adjust are PASS exactly when every row satisfies the
\* invariant they re-check, "or null" included.
C19_ChecksMatchInvariants ==
    checks # <<>> =>
        /\ checks[1].vendor_valid
              <=> \A i \in DOMAIN out :
                      isna(out[i].VendorID) \/ out[i].VendorID[1] \in {1, 2}
        /\ checks[1].distance_range
              <=> \A i \in DOMAIN out :
                      \/ isna(out[i].trip_distance)
                      \/ /\ out[i].trip_distance[1] >= 0
                         /\ out[i].trip_distance[1] <= 200 * 1000000
        /\ checks[1].fare_nonneg_when_not_adjust
              <=> \A i \in DOMAIN out :
                      not_adjustment(out[i]) => nonneg_or_null(out[i].fare_amount)
        /\ checks[1].total_nonneg_when_not_adjust
              <=> \A i \in DOMAIN out :
                      not_adjustment(out[i]) => nonneg_or_null(out[i].total_amount)

\* clean() ended in _read_inputs: not even the first report line was logged.
read_failed == pc = "failed" /\ report = <<>>

\* C20: when an input cannot be read clean() fails with DataSourceError before
\* any stage ran and writes neither file; after any error there is no clean
\* dataset; the report is written only once the clean dataset is.
C20_FatalErrorNoArtifacts ==
    /\ read_failed =>
          /\ error = <<"DataSourceError">>
          /\ df = <<>>
          /\ clean_csv = <<>>
          /\ report_md = <<>>
    /\ error # <<>> => clean_csv = <<>>
    /\ report_md # <<>> => clean_csv # <<>>

\* The columns the spec calls optional, and the core ones.
OptionalCols == SevenFees \cup {"total_amount", "store_and_fwd_flag"}

CoreCols ==
    { "VendorID", "PULocationID", "DOLocationID", "payment_type", "RatecodeID",
      "tpep_pickup_datetime", "tpep_dropoff_datetime" }

\* The errors of the environment: a file that cannot be read or written.
io_error == error \in {<<"FileNotFoundError">>, <<"ParserError">>, <<"OSError">>}

\* C21: when only optional columns are absent from the raw file clean() raises
\* no error over them, and the error raised over an absent core column is a
\* SchemaError.
C21_OptionalColumnsSkipped ==
    /\ (absent # {} /\ absent \subseteq OptionalCols) => (error = <<>> \/ io_error)
    /\ (absent \cap CoreCols # {} /\ error # <<>> /\ ~io_error)
          => error = <<"SchemaError">>

\* C22: on a raw file with all expected columns clean() raises no error,
\* whatever the values in the rows.
C22_TotalOverRowValues ==
    absent = {} => (error = <<>> \/ io_error)

\* The report lines in the order of the stages of clean().
StageOrder ==
    << "Loaded raw rows",
       "Dropped invalid VendorID rows",
       "Dropped dropoff<pickup",
       "Dropped >24h duration",
       "Dropped zero-minute with zero-distance",
       "Dropped negative distance",
       "Dropped extreme distance >200mi",
       "Set negatives to NA for extra",
       "Set negatives to NA for mta_tax",
       "Set negatives to NA for tip_amount",
       "Set negatives to NA for tolls_amount",
       "Set negatives to NA for improvement_surcharge",
       "Set negatives to NA for congestion_surcharge",
       "Set negatives to NA for airport_fee",
       "Dropped negative fare for non-adjustment payments",
       "Dropped negative total for non-adjustment payments",
       "Replaced mismatched total_amount",
       "Dropped exact duplicates",
       "Dropped rows with unmapped PU/DO zones",
       "Final rows" >>

stage_rank(label) == CHOOSE k \in DOMAIN StageOrder : StageOrder[k] = label

\* C23: the written report starts with the loaded raw row count, ends with
\* 'Final rows' and the row count of the written clean dataset, and holds the
\* stage lines in the order of the stages, each at most once.
C23_ReportInStageOrder ==
    report_md # <<>> =>
        LET lines == report_md[1]
        IN  /\ lines[1] = <<"Loaded raw rows", Len(raw)>>
            /\ lines[Len(lines)] = <<"Final rows", Len(out)>>
            /\ \A k \in DOMAIN lines :
                  \E n \in DOMAIN StageOrder : StageOrder[n] = lines[k][1]
            /\ \A a, b \in DOMAIN lines :
                  a < b => stage_rank(lines[a][1]) < stage_rank(lines[b][1])

\* A written report with a negative-fee line, followed by the negative-fare
\* line, followed by the mismatch line.
C23_Witness ==
    /\ report_md # <<>>
    /\ \E a, b, c \in DOMAIN report_md[1] :
          /\ a < b /\ b < c
          /\ report_md[1][a][1] = "Set negatives to NA for tip_amount"
          /\ report_md[1][b][1] = "Dropped negative fare for non-adjustment payments"
          /\ report_md[1][c][1] = "Replaced mismatched total_amount"

\* The duplicate key without the dropoff location id.
key7(r) ==
    << r.VendorID, r.tpep_pickup_datetime, r.tpep_dropoff_datetime,
       r.PULocationID, r.trip_distance, r.fare_amount, r.payment_type >>

\* C24 as stated: the dedup stage treats rows that agree on the seven key
\* fields other than DOLocationID as duplicates and keeps only the first.
C24_KeyExcludesDropoffLocation ==
    [][(pc = "dedup" /\ pc' = "merge_pu") =>
        \A i \in DOMAIN df :
            in_frame(df[i], df')
                <=> ~\E j \in 1..(i - 1) : key7(df[j]) = key7(df[i])]_vars

\* C24 as amended: DOLocationID is part of the key. A row is dropped when an
\* earlier row agrees with it on the seven other key fields and on
\* DOLocationID, and kept when every earlier row that agrees on the seven
\* differs in DOLocationID.
C24_KeyIncludesDropoffLocation ==
    [][(pc = "dedup" /\ pc' = "merge_pu") =>
        \A i \in DOMAIN df :
            LET same7 == {j \in 1..(i - 1) : key7(df[j]) = key7(df[i])}
            IN  /\ (\E j \in same7 : df[j].DOLocationID = df[i].DOLocationID)
                      => ~in_frame(df[i], df')
                /\ (\A j \in same7 : df[j].DOLocationID # df[i].DOLocationID)
                      => in_frame(df[i], df')]_vars

\* After the dedup stage the frame holds two rows that agree on the seven
\* fields and differ in DOLocationID.
C24_Witness ==
    /\ pc = "merge_pu"
    /\ Len(df) = 2
    /\ key7(df[1]) = key7(df[2])
    /\ df[1].DOLocationID # df[2].DOLocationID

all_components_null(r) ==
    \A col \in SevenFees \cup {"fare_amount"} : isna(r[col])

\* C25: the recomputed sum of a row is null when all eight components are null
\* and the reconciliation then leaves total_amount as it is; with a component
\* present the sum counts each null as 0.
C25_AllNullSumIsNull ==
    [][pc = "reconcile" =>
        \A i \in DOMAIN df :
            IF all_components_null(df[i])
            THEN /\ isna(computed_total(df[i]))
                 /\ df'[i].total_amount = df[i].total_amount
            ELSE computed_total(df[i]) = <<component_sum(df[i])>>]_vars

\* C26: the negative-fare filter drops exactly the rows with a negative
\* fare_amount whose payment_type is not 4 or 6, and the negative-total filter
\* exactly the rows then left with a negative total_amount whose payment_type
\* is not 4 or 6; a row with payment_type 4 or 6 passes both.
C26_NonAdjustmentOnly ==
    /\ [][pc = "neg_fare" =>
            \A i \in DOMAIN df :
                in_frame(df[i], df')
                    <=> ~(/\ not_adjustment(df[i])
                          /\ notna(df[i].fare_amount)
                          /\ df[i].fare_amount[1] < 0)]_vars
    /\ [][pc = "neg_total" =>
            \A i \in DOMAIN df :
                in_frame(df[i], df')
                    <=> ~(/\ not_adjustment(df[i])
                          /\ notna(df[i].total_amount)
                          /\ df[i].total_amount[1] < 0)]_vars

\* The first raw row was dropped by the negative-fare filter and the second,
\* with a negative total, by the negative-total filter.
C26_Witness ==
    /\ pc = "reconcile"
    /\ Len(raw) = 2
    /\ raw[1].fare_amount = <<-500>> /\ raw[1].payment_type = <<1>>
    /\ raw[2].total_amount = <<-1630>> /\ raw[2].fare_amount = <<1000>>
    /\ df = <<>>
    /\ line_count(report, "Dropped negative fare for non-adjustment payments") = 1
    /\ line_count(report, "Dropped negative total for non-adjustment payments") = 1

\* The step keeps the number and the order of the rows and changes no column
\* outside cols.
only_changes(cols) ==
    /\ Len(df') = Len(df)
    /\ \A i \in DOMAIN df : \A f \in DOMAIN df[i] \ cols : df'[i][f] = df[i][f]

TenNumericCols ==
    SevenFees \cup {"fare_amount", "total_amount", "trip_distance"}

\* C27: each value-nulling stage keeps the number and the order of the rows
\* and changes only the column it targets: the coercion and flag validation
\* only the flag (and a text field of a numeric column, to null), the
\* RatecodeID, payment_type, negative-fee, total_amount and passenger_count
\* stages only their column; a payment_type of 0 becomes null and any other
\* payment_type is left as it is.
C27_NullingKeepsRows ==
    /\ [][pc = "coerce" =>
            /\ only_changes(TenNumericCols \cup {"store_and_fwd_flag"})
            /\ \A i \in DOMAIN df : \A f \in TenNumericCols :
                  df'[i][f] = IF Len(df[i][f]) = 2 THEN NA ELSE df[i][f]]_vars
    /\ [][pc = "ratecode" => only_changes({"RatecodeID"})]_vars
    /\ [][pc = "payment" =>
            /\ only_changes({"payment_type"})
            /\ \A i \in DOMAIN df :
                  df'[i].payment_type =
                      IF df[i].payment_type = <<0>> THEN NA ELSE df[i].payment_type]_vars
    /\ [][pc = "neg_fees" => only_changes(SevenFees)]_vars
    /\ [][pc = "reconcile" => only_changes({"total_amount"})]_vars
    /\ [][pc = "passenger" => only_changes({"passenger_count"})]_vars

\* After the payment stage the frame holds a row whose raw payment_type 0 is
\* now null, next to a row whose payment_type is unchanged.
C27_Witness ==
    /\ pc = "bad_order"
    /\ Len(df) = 2
    /\ origin(df[1]).payment_type = <<0>> /\ isna(df[1].payment_type)
    /\ df[1].fare_amount = origin(df[1]).fare_amount
    /\ df[2].payment_type = <<4>>

\* C28: in the written report the loaded count minus the counts of the ten
\* row-dropping lines (an absent line counting 0) is the 'Final rows' count
\* and the number of rows of the clean dataset.
C28_RowCountConservation ==
    report_md # <<>> =>
        LET lines == report_md[1]
            dropped ==
                line_count(lines, "Dropped invalid VendorID rows")
                + line_count(lines, "Dropped dropoff<pickup")
                + line_count(lines, "Dropped >24h duration")
                + line_count(lines, "Dropped zero-minute with zero-distance")
                + line_count(lines, "Dropped negative distance")
                + line_count(lines, "Dropped extreme distance >200mi")
                + line_count(lines, "Dropped negative fare for non-adjustment payments")
                + line_count(lines, "Dropped negative total for non-adjustment payments")
                + line_count(lines, "Dropped exact duplicates")
                + line_count(lines, "Dropped rows with unmapped PU/DO zones")
        IN  /\ line_count(lines, "Loaded raw rows") - dropped
                  = line_count(lines, "Final rows")
            /\ line_count(lines, "Final rows") = Len(out)

\* A raw field as the coercion types it: text in a numeric column is null.
coerced(x) == IF Len(x) = 2 THEN NA ELSE x

\* C29: the rows of the clean output come from distinct raw rows, in raw
\* order, and carry the raw row's VendorID, timestamps, location ids,
\* trip_distance and fare_amount (as coerced).
C29_OrderPreservingSubsequence ==
    written =>
        /\ \A a, b \in DOMAIN out : a < b => out[a].idx < out[b].idx
        /\ \A i \in DOMAIN out :
              /\ out[i].idx \in DOMAIN raw
              /\ \A f \in { "VendorID", "tpep_pickup_datetime",
                            "tpep_dropoff_datetime", "PULocationID",
                            "DOLocationID", "trip_distance", "fare_amount" } :
                    out[i][f] = coerced(raw[out[i].idx][f])

\* A row of the clean dataset as _read_inputs types it when it is read as raw
\* input: RatecodeID and passenger_count are Float64 again (held in halves).
reload(r) ==
    [r EXCEPT !.RatecodeID = IF isna(@) THEN NA ELSE <<2 * @[1]>>,
              !.passenger_count = IF isna(@) THEN NA ELSE <<2 * @[1]>>]

\* C30: stages 1 to 13 applied to the clean output, then the zone-name drop
\* with the same reference, remove no row and change no trip column.
C30_IdempotentOnOutput ==
    written =>
        LET again == rule_engine([i \in DOMAIN out |-> reload(out[i])])
        IN  /\ Len(again) = Len(out)
            /\ \A i \in DOMAIN again :
                  /\ \A f \in DOMAIN BaseRow \cup {"trip_duration_min"} :
                        again[i][f] = out[i][f]
                  /\ ~nameless(again[i])

====
